---- MODULE Spec2Model ----
(***************************************************************************)
(* StatusMonitor (src/components/StatusMonitor.tsx): the progress          *)
(* aggregation over the group list, the timeline fetch-and-fallback state  *)
(* (apiTweets, loadingTimeline, useFallback) and the display mapping.      *)
(*                                                                         *)
(* The component's state is the three useState cells.  An asynchronous     *)
(* fetchTimeline call is split at its only await: the synchronous prefix   *)
(* (lines 28-29) runs in the step that triggers it, the continuation       *)
(* (lines 32-48) runs in the step in which getTimeline settles.  Several   *)
(* calls may be suspended at the await at once; they are told apart by the *)
(* order in which they were started.                                       *)
(***************************************************************************)
EXTENDS Integers, Sequences, FiniteSets, TLC

VARIABLES
    groups,           \* prop: the group list (line 15)
    isPosting,        \* prop: the posting signal (line 16)
    history,          \* prop: the history log, most recent first (line 18)
    apiTweets,        \* useState<Tweet[]>([]) (line 23)
    loadingTimeline,  \* useState(false) (line 24)
    useFallback,      \* useState(false) (line 25)
    mounted,          \* "init": rendered, mount effect not yet run; "yes"; "gone"
    inflight,         \* the fetchTimeline calls suspended at the await (line 31)
    nextId,           \* the number the next fetchTimeline call gets
    ev,               \* the step that led to this state
    latestOutcome,    \* how the most recently started call settled, if it has
    overlap,          \* pairs <<a, b>>: b was started while a was in flight
    applied,          \* the calls whose continuation has written the state
    lastOutcome,      \* how the call that settled last, while mounted, settled
    signalled         \* isPosting has changed since the first commit

vars == <<groups, isPosting, history, apiTweets, loadingTimeline, useFallback,
          mounted, inflight, nextId, ev, latestOutcome, overlap, applied,
          lastOutcome, signalled>>

resolver == <<apiTweets, loadingTimeline, useFallback>>
ghost == <<latestOutcome, overlap, applied, lastOutcome>>

----------------------------------------------------------------------------
(* Bounds of the model *)

MaxFetches == 3
MaxFeed == 6
MaxHistory == 6
MaxGroups == 40

(* history.slice(0, 5) *)
DisplayCap == 5

----------------------------------------------------------------------------
(* Data *)

Max(a, b) == IF a >= b THEN a ELSE b
Min(a, b) == IF a <= b THEN a ELSE b

(* A Tweet of services/api: id, text, createdAt, told apart by i. *)
Tweet(i) == [id |-> i, text |-> <<"tweet", i>>, createdAt |-> <<"at", i>>]

(* A PostHistoryItem: id, text, timestamp, postUrl. *)
HistoryItem(i) ==
    [id |-> <<"h", i>>, text |-> <<"post", i>>, timestamp |-> <<"ts", i>>,
     postUrl |-> <<"url", i>>]

(* A history log of n entries, most recent (highest) first. *)
HistoryLog(n) == [j \in 1..n |-> HistoryItem(n + 1 - j)]
HistoryLogs == {HistoryLog(n) : n \in 0..MaxHistory}

(* What getTimeline can resolve with: nothing, one tweet, two tweets in     *)
(* either order, and a feed longer than the display cap.                    *)
NewestFirst(n) == [j \in 1..n |-> Tweet(n + 1 - j)]
Feeds == {NewestFirst(0), NewestFirst(1), NewestFirst(2),
          <<Tweet(1), Tweet(2)>>, NewestFirst(MaxFeed)}

(* How the awaited getTimeline() settles: it resolves with a feed, or it    *)
(* rejects.                                                                  *)
NoOutcome == [kind |-> "none", tweets |-> <<>>]
Rejected == [kind |-> "error", tweets |-> <<>>]
Resolved(ts) == [kind |-> "ok", tweets |-> ts]
Outcomes == {Resolved(ts) : ts \in Feeds} \cup {Rejected}

(* A PostGroup, reduced to the fields the component computes with. *)
Statuses == {"pending", "posting", "success", "failed"}

Group(i, status) == [id |-> i, status |-> status]

GroupList(done, rest, status) ==
    [i \in 1..(done + rest) |->
        Group(i, IF i <= done THEN "success" ELSE status)]

GroupLists ==
    {GroupList(done, rest, status) :
        done \in 0..MaxGroups, rest \in 0..MaxGroups, status \in Statuses \ {"success"}}

(* The group lists the timeline is exercised with: none planned, and one   *)
(* group posted with one being posted.                                      *)
TimelineGroups == {GroupList(0, 0, "pending"), GroupList(1, 1, "posting")}

----------------------------------------------------------------------------
(* JavaScript numbers.  Line 100 computes in IEEE-754 binary64: the         *)
(* quotient is rounded to 53 significant bits (nearest, ties to even), the  *)
(* product with 100 is rounded again, and Math.round takes the result to    *)
(* an integer, halves going up.                                             *)
(*                                                                          *)
(* A double d >= 0 is [sig, exp] and stands for sig * 2^(exp - 52), where   *)
(* sig is a numeral of 1 + Limbs digits in base 2^LimbBits, most            *)
(* significant digit first; the first digit holds the bits above the 52     *)
(* fraction bits and is not reduced modulo the base.                        *)

LimbBits == 13
Limbs == 4
PercentScale == 100

RECURSIVE Pow2(_)
Pow2(n) == IF n = 0 THEN 1 ELSE 2 * Pow2(n - 1)

Base == Pow2(LimbBits)

(* The number of bits of n >= 0. *)
RECURSIVE BitLen(_)
BitLen(n) == IF n = 0 THEN 0 ELSE 1 + BitLen(n \div 2)

(* Long division: the next n base-Base digits of r / t (0 <= r < t),        *)
(* followed by the remainder left after them.                               *)
RECURSIVE DivLimbs(_, _, _)
DivLimbs(r, t, n) ==
    IF n = 0 THEN <<r>>
    ELSE <<(r * Base) \div t>> \o DivLimbs((r * Base) % t, t, n - 1)

(* Carries pushed towards the first digit, which takes what is left. *)
RECURSIVE Carry(_)
Carry(l) ==
    IF Len(l) <= 1 THEN l
    ELSE LET n == Len(l)
             front == [i \in 1..(n - 1) |->
                          IF i = n - 1 THEN l[i] + (l[n] \div Base) ELSE l[i]]
         IN  Carry(front) \o <<l[n] % Base>>

(* The least k with s * 2^k >= t, for 1 <= s <= t. *)
RECURSIVE Shift(_, _)
Shift(s, t) == IF s >= t THEN 0 ELSE 1 + Shift(2 * s, t)

FloatZero == [sig |-> [i \in 1..(Limbs + 1) |-> 0], exp |-> 0]

(* s / t in binary64, for integers 0 <= s <= t, 1 <= t. *)
FloatDiv(s, t) ==
    IF s = 0 THEN FloatZero
    ELSE LET k == Shift(s, t)
             q == DivLimbs(s * Pow2(k) - t, t, Limbs)
             rem == q[Limbs + 1]
             guard == (2 * rem) \div t
             sticky == (2 * rem) % t # 0
             odd == q[Limbs] % 2 = 1
             up == IF guard = 1 /\ (sticky \/ odd) THEN 1 ELSE 0
         IN  [sig |-> Carry(<<1>> \o [i \in 1..Limbs |->
                                        IF i = Limbs THEN q[i] + up ELSE q[i]]),
              exp |-> 0 - k]

(* d * c in binary64, for a small integer c >= 1. *)
FloatTimes(d, c) ==
    LET p == Carry([i \in 1..(Limbs + 1) |-> d.sig[i] * c])
        n == BitLen(p[1]) - 1
        unit == IF n > 0 THEN Pow2(n) ELSE 1
        low == p[Limbs + 1]
        dropped == low % unit
        odd == (low \div unit) % 2 = 1
        up == n > 0 /\ (2 * dropped > unit \/ (2 * dropped = unit /\ odd))
    IN  [sig |-> Carry([i \in 1..(Limbs + 1) |->
                          IF i = Limbs + 1
                          THEN (low - dropped) + (IF up THEN unit ELSE 0)
                          ELSE p[i]]),
         exp |-> d.exp]

(* Math.round(d) for 0 <= d with d.exp <= 0: the integer part, plus one     *)
(* when the fraction is a half or more.                                     *)
MathRound(d) ==
    LET k == 0 - d.exp
        whole == d.sig[1] \div Pow2(k)
        half == IF k >= 1 THEN (d.sig[1] \div Pow2(k - 1)) % 2
                ELSE d.sig[2] \div (Base \div 2)
    IN  whole + half

----------------------------------------------------------------------------
(* What a render derives from props and state (lines 81-100) *)

(* The last n entries instead of the first: slice(-n). *)
Slice_FromEnd(seq, n) == SubSeq(seq, Max(1, Len(seq) - n + 1), Len(seq))

(* history.slice(0, 5) *)
Slice(seq, n) == SubSeq(seq, 1, Min(n, Len(seq)))

(* `https://twitter.com/i/web/status/${t.id}` *)
Permalink(id) == <<"https://twitter.com/i/web/status/", id>>

HistoryToItem(h) ==
    [id |-> h.id, text |-> h.text, createdAt |-> h.timestamp,
     source |-> "history", url |-> h.postUrl]

TweetToItem(t) ==
    [id |-> t.id, text |-> t.text, createdAt |-> t.createdAt,
     source |-> "api", url |-> Permalink(t.id)]

(* The array after splice(0, 5), which removes what it returns. *)
AfterRead_Spliced(arr) == SubSeq(arr, DisplayCap + 1, Len(arr))

(* An array prop after a render has read it: filter (line 99), slice        *)
(* (line 82) and map (lines 82, 89) build new arrays and leave the one they *)
(* are called on as it was.                                                 *)
AfterRead(arr) == arr

(* The flag without the test for an empty remote result. *)
isShowingHistory_FlagOnly == useFallback

(* line 97 *)
isShowingHistory == useFallback \/ Len(apiTweets) = 0

(* The displayed items chosen by the flag alone. *)
displayItems_FlagOnly ==
    IF useFallback
    THEN LET shown == Slice(history, DisplayCap)
         IN  [i \in 1..Len(shown) |-> HistoryToItem(shown[i])]
    ELSE [i \in 1..Len(apiTweets) |-> TweetToItem(apiTweets[i])]

(* lines 81-95 *)
displayItems ==
    IF useFallback \/ Len(apiTweets) = 0
    THEN LET shown == Slice(history, DisplayCap)
         IN  [i \in 1..Len(shown) |-> HistoryToItem(shown[i])]
    ELSE [i \in 1..Len(apiTweets) |-> TweetToItem(apiTweets[i])]

(* line 99 *)
successCount == Len(SelectSeq(groups, LAMBDA g : g.status = "success"))

(* line 100 *)
progress ==
    MathRound(FloatTimes(FloatDiv(successCount, Max(Len(groups), 1)),
                         PercentScale))

(* The progress panel with the bar in both branches. *)
progressView_AlwaysBar ==
    [kind |-> "bar", width |-> progress, done |-> successCount,
     total |-> Len(groups)]

(* Lines 111-128: the progress panel is the waiting placeholder for an      *)
(* empty group list, and otherwise the bar (its width progress%) with the   *)
(* counts successCount / groups.length.                                     *)
progressView ==
    IF Len(groups) = 0
    THEN [kind |-> "awaiting", width |-> 0, done |-> 0, total |-> 0]
    ELSE [kind |-> "bar", width |-> progress, done |-> successCount,
          total |-> Len(groups)]

(* Lines 176-201: the timeline panel is the loader while loading, the      *)
(* "no posts" placeholder for no items, and otherwise the list.             *)
timelineView ==
    IF loadingTimeline THEN "loading"
    ELSE IF Len(displayItems) = 0 THEN "empty" ELSE "list"

----------------------------------------------------------------------------
(* fetchTimeline (lines 27-50) *)

(* Lines 28-29, up to the await: what the call writes before it suspends. *)
BeforeAwait == [loadingTimeline |-> TRUE, useFallback |-> FALSE]

(* The continuation with the catch clause only logging. *)
AfterAwait_CatchOnlyLogs(o, cur) ==
    IF o.kind = "ok"
    THEN IF Len(o.tweets) > 0
         THEN [apiTweets |-> o.tweets, useFallback |-> FALSE]
         ELSE [apiTweets |-> o.tweets, useFallback |-> cur.useFallback]
    ELSE [apiTweets |-> cur.apiTweets, useFallback |-> cur.useFallback]

(* The continuation with an empty result not stored. *)
AfterAwait_EmptyNotStored(o, cur) ==
    IF o.kind = "ok"
    THEN IF Len(o.tweets) > 0
         THEN [apiTweets |-> o.tweets, useFallback |-> FALSE]
         ELSE [apiTweets |-> cur.apiTweets, useFallback |-> cur.useFallback]
    ELSE [apiTweets |-> cur.apiTweets, useFallback |-> TRUE]

(* The continuation without line 34. *)
AfterAwait_FallbackKept(o, cur) ==
    IF o.kind = "ok"
    THEN [apiTweets |-> o.tweets, useFallback |-> cur.useFallback]
    ELSE [apiTweets |-> cur.apiTweets, useFallback |-> TRUE]

(* Lines 32-46: what the continuation writes to apiTweets and useFallback   *)
(* when getTimeline has settled with o, cur being the state it finds.       *)
AfterAwait(o, cur) ==
    IF o.kind = "ok"
    THEN IF Len(o.tweets) > 0
         THEN [apiTweets |-> o.tweets, useFallback |-> FALSE]
         ELSE [apiTweets |-> o.tweets, useFallback |-> cur.useFallback]
    ELSE [apiTweets |-> cur.apiTweets, useFallback |-> TRUE]

(* The loading flag cleared at the end of the try block only. *)
Finally_TryOnly(o, cur) == IF o.kind = "ok" THEN FALSE ELSE cur.loadingTimeline

(* Lines 47-49: the finally block runs on every path. *)
Finally(o, cur) == FALSE

(* Lines 30, 44: a rejection of getTimeline is thrown inside the try block  *)
(* and the catch clause takes every exception, so the promise fetchTimeline *)
(* returns rejects only if something is thrown outside the try.             *)
CaughtByTry(o) == TRUE
Escapes(o) == o.kind = "error" /\ ~CaughtByTry(o)

Event(kind, id, o, alone, escaped) ==
    [kind |-> kind, id |-> id, outcome |-> o, alone |-> alone,
     escaped |-> escaped]

(* A call of fetchTimeline: it runs to the await and is suspended there. *)
StartFetch ==
    /\ nextId <= MaxFetches
    /\ loadingTimeline' = BeforeAwait.loadingTimeline
    /\ useFallback' = BeforeAwait.useFallback
    /\ apiTweets' = apiTweets
    /\ inflight' = inflight \cup {nextId}
    /\ nextId' = nextId + 1
    /\ latestOutcome' = NoOutcome
    /\ overlap' = overlap \cup {<<a, nextId>> : a \in inflight}
    /\ applied' = applied
    /\ lastOutcome' = lastOutcome

(* The effect without its dependency list. *)
EffectRuns_NoDeps(first, prevDeps, deps) == TRUE

(* useEffect(() => { fetchTimeline(); }, [isPosting]) (lines 52-54): after  *)
(* a commit the effect runs if it has not run yet or a dependency differs   *)
(* from its value at the previous commit.                                   *)
EffectRuns(first, prevDeps, deps) == first \/ prevDeps # deps

(* The first commit: the mount effect. *)
Activate ==
    /\ mounted = "init"
    /\ mounted' = "yes"
    /\ EffectRuns(TRUE, <<isPosting>>, <<isPosting>>)
    /\ StartFetch
    /\ ev' = Event("activate", nextId, NoOutcome, inflight = {}, FALSE)
    /\ groups' = AfterRead(groups)
    /\ history' = AfterRead(history)
    /\ UNCHANGED <<isPosting, signalled>>

(* The parent renders the component again with a posting signal and a       *)
(* history log, possibly the same ones; the log only grows at its head.     *)
Render(posting, log) ==
    /\ mounted = "yes"
    /\ isPosting' = posting
    /\ history' = AfterRead(log)
    /\ groups' = AfterRead(groups)
    /\ signalled' = (signalled \/ posting # isPosting)
    /\ IF EffectRuns(FALSE, <<isPosting>>, <<posting>>)
       THEN /\ StartFetch
            /\ ev' = Event("signal", nextId, NoOutcome, inflight = {}, FALSE)
       ELSE /\ ev' = Event("render", 0, NoOutcome, inflight = {}, FALSE)
            /\ UNCHANGED <<resolver, inflight, nextId, ghost>>
    /\ UNCHANGED mounted

(* The button never disabled. *)
RefreshDisabled_Never == FALSE

(* The refresh button (lines 171-173): onClick={fetchTimeline}, and a       *)
(* disabled button delivers no click.                                       *)
RefreshDisabled == loadingTimeline

Refresh ==
    /\ mounted = "yes"
    /\ ~RefreshDisabled
    /\ StartFetch
    /\ ev' = Event("refresh", nextId, NoOutcome, inflight = {}, FALSE)
    /\ groups' = AfterRead(groups)
    /\ history' = AfterRead(history)
    /\ UNCHANGED <<isPosting, mounted, signalled>>

(* getTimeline settles for the suspended call f and its continuation runs   *)
(* (lines 32-48).  The state setters of a component that has been unmounted *)
(* write nothing.                                                           *)
Complete(f, o) ==
    /\ f \in inflight
    /\ inflight' = inflight \ {f}
    /\ IF mounted = "yes"
       THEN LET cur == [apiTweets |-> apiTweets, useFallback |-> useFallback,
                        loadingTimeline |-> loadingTimeline]
                new == AfterAwait(o, cur)
            IN  /\ apiTweets' = new.apiTweets
                /\ useFallback' = new.useFallback
                /\ loadingTimeline' = Finally(o, cur)
                /\ applied' = applied \cup {f}
                /\ lastOutcome' = o
                /\ groups' = AfterRead(groups)
                /\ history' = AfterRead(history)
       ELSE UNCHANGED <<resolver, applied, lastOutcome, groups, history>>
    /\ latestOutcome' = IF f = nextId - 1 THEN o ELSE latestOutcome
    /\ ev' = Event("complete", f, o, inflight = {f}, Escapes(o))
    /\ UNCHANGED <<isPosting, mounted, nextId, overlap, signalled>>

(* A teardown whose cleanup calls fetchTimeline. *)
Unmount_CleanupFetches ==
    /\ mounted = "yes"
    /\ mounted' = "gone"
    /\ StartFetch
    /\ ev' = Event("unmount", nextId, NoOutcome, inflight = {}, FALSE)
    /\ UNCHANGED <<groups, isPosting, history, signalled>>

(* The owning view is torn down; the component has no cleanup. *)
Unmount ==
    /\ mounted = "yes"
    /\ mounted' = "gone"
    /\ ev' = Event("unmount", 0, NoOutcome, inflight = {}, FALSE)
    /\ UNCHANGED <<groups, isPosting, history, resolver, inflight, nextId, ghost,
                   signalled>>

NextLogs == {history} \cup
            (IF Len(history) < MaxHistory THEN {HistoryLog(Len(history) + 1)} ELSE {})

Init ==
    /\ groups \in TimelineGroups
    /\ isPosting \in BOOLEAN
    /\ history \in HistoryLogs
    /\ apiTweets = <<>>
    /\ loadingTimeline = FALSE
    /\ useFallback = FALSE
    /\ mounted = "init"
    /\ inflight = {}
    /\ nextId = 1
    /\ ev = Event("init", 0, NoOutcome, TRUE, FALSE)
    /\ latestOutcome = NoOutcome
    /\ overlap = {}
    /\ applied = {}
    /\ lastOutcome = NoOutcome
    /\ signalled = FALSE

Next ==
    \/ Activate
    \/ \E posting \in BOOLEAN, log \in NextLogs : Render(posting, log)
    \/ Refresh
    \/ \E f \in inflight, o \in Outcomes : Complete(f, o)
    \/ Unmount

Spec == Init /\ [][Next]_vars

----------------------------------------------------------------------------
(* The group list.  The publishing pipeline owns it and hands it down as a  *)
(* prop: groups are posted one at a time in list order, so the list is some *)
(* groups that succeeded followed by groups in one other status.            *)

(* The pipeline plans one more group. *)
GroupPlanned ==
    /\ Len(groups) < MaxGroups
    /\ \A i \in 1..Len(groups) : groups[i].status \in {"success", "pending"}
    /\ groups' = AfterRead(Append(groups, Group(Len(groups) + 1, "pending")))
    /\ ev' = Event("groups", 0, NoOutcome, inflight = {}, FALSE)
    /\ UNCHANGED <<isPosting, history, resolver, mounted, inflight, nextId, ghost,
                   signalled>>

(* The pipeline finishes posting the first group that has not succeeded. *)
GroupPosted ==
    /\ \E i \in 1..Len(groups) :
          /\ groups[i].status # "success"
          /\ \A j \in 1..(i - 1) : groups[j].status = "success"
          /\ groups' = AfterRead([groups EXCEPT ![i].status = "success"])
    /\ ev' = Event("groups", 0, NoOutcome, inflight = {}, FALSE)
    /\ UNCHANGED <<isPosting, history, resolver, mounted, inflight, nextId, ghost,
                   signalled>>

InitProgress ==
    /\ groups \in {g \in GroupLists : Len(g) <= MaxGroups}
    /\ isPosting = FALSE
    /\ history = <<>>
    /\ apiTweets = <<>>
    /\ loadingTimeline = FALSE
    /\ useFallback = FALSE
    /\ mounted = "init"
    /\ inflight = {}
    /\ nextId = 1
    /\ ev = Event("init", 0, NoOutcome, TRUE, FALSE)
    /\ latestOutcome = NoOutcome
    /\ overlap = {}
    /\ applied = {}
    /\ lastOutcome = NoOutcome
    /\ signalled = FALSE

NextProgress ==
    \/ GroupPlanned
    \/ GroupPosted

SpecProgress == InitProgress /\ [][NextProgress]_vars

----------------------------------------------------------------------------
(* Properties *)

(* What the view shows when history is the source: the first DisplayCap     *)
(* entries of the log, field by field.                                      *)
HistoryView ==
    [i \in 1..Min(Len(history), DisplayCap) |->
        [id |-> history[i].id, text |-> history[i].text,
         createdAt |-> history[i].timestamp, source |-> "history",
         url |-> history[i].postUrl]]

(* What the view shows for a remote feed ts: one entry per tweet, in order. *)
RemoteView(ts) ==
    [i \in 1..Len(ts) |->
        [id |-> ts[i].id, text |-> ts[i].text, createdAt |-> ts[i].createdAt,
         source |-> "api",
         url |-> <<"https://twitter.com/i/web/status/", ts[i].id>>]]

(* The stored items, the active source and the displayed items are those of *)
(* a fetch that settled with o.                                             *)
Reflects(o) ==
    IF o.kind = "ok" /\ Len(o.tweets) > 0
    THEN /\ apiTweets = o.tweets
         /\ ~isShowingHistory
         /\ displayItems = RemoteView(o.tweets)
    ELSE /\ isShowingHistory
         /\ displayItems = HistoryView

(* The last step was the continuation of a fetch, run while mounted. *)
Completed == ev.kind = "complete" /\ mounted = "yes"
CompletedAlone == Completed /\ ev.alone

(* C1: stale-response discard.  When every fetch has completed and the last *)
(* response to arrive belongs to a fetch that was started before the most   *)
(* recently started one, the stored items, the active source and the        *)
(* displayed items are those of the most recently started fetch.            *)
C1_StaleResponseDiscarded ==
    (Completed /\ inflight = {} /\ ev.id < nextId - 1)
        => Reflects(latestOutcome)

(* C2: failure fallback.  After a fetch that was alone in flight completes  *)
(* with an error, the view is not loading and shows the history log, and    *)
(* the error has not left fetchTimeline.                                    *)
C2_FailureFallback ==
    (CompletedAlone /\ ev.outcome.kind = "error")
        => /\ ~loadingTimeline
           /\ isShowingHistory
           /\ displayItems = HistoryView
           /\ ~ev.escaped

C2_Witness ==
    /\ CompletedAlone
    /\ ev.outcome.kind = "error"
    /\ Len(apiTweets) > 0
    /\ Len(history) > DisplayCap

C5_DisplayCap == Len(displayItems) <= DisplayCap

(* C6: eventual resolution.  The step in which a fetch completes leaves the *)
(* loading flag cleared, and whenever no fetch is in flight the loading     *)
(* flag is cleared.                                                         *)
C6_EventualResolution ==
    mounted # "gone"
        => /\ (ev.kind = "complete" => ~loadingTimeline)
           /\ (inflight = {} => ~loadingTimeline)

C6_Witness ==
    /\ Completed
    /\ ev.outcome.kind = "error"
    /\ inflight = {}
    /\ overlap # {}
    /\ ~loadingTimeline

(* C7: at most one outcome per overlap.  Of two fetches of which the second *)
(* was started while the first was in flight, at most one has had its       *)
(* response applied.                                                        *)
C7_OneOutcomePerOverlap ==
    \A p \in overlap : ~(p[1] \in applied /\ p[2] \in applied)

(* C8: percentage.  successCount is the number of groups with status        *)
(* success, and progress is the integer nearest to                          *)
(* successCount / max(total, 1) * 100, halves going up; it lies in 0..100   *)
(* and is 0 for the empty list.                                             *)
C8_Percentage ==
    LET total == Len(groups)
        count == Cardinality({i \in 1..total : groups[i].status = "success"})
        den == IF total = 0 THEN 1 ELSE total
    IN  /\ successCount = count
        /\ progress \in 0..100
        /\ 2 * den * progress <= 200 * count + den
        /\ 200 * count + den < 2 * den * (progress + 1)
        /\ (total = 0 => progress = 0)

(* C9: trigger conditions.  The first activation starts exactly one fetch,  *)
(* every change of isPosting starts exactly one fetch, and a render that    *)
(* leaves isPosting as it was starts none.                                  *)
C9_TriggerConditions ==
    [][LET started == nextId' - nextId
           rendered == mounted = "yes" /\ ev'.kind \in {"render", "signal"}
       IN  /\ (mounted = "init" /\ mounted' = "yes")
                => (started = 1 /\ inflight' = inflight \cup {nextId})
           /\ (isPosting' # isPosting)
                => (started = 1 /\ inflight' = inflight \cup {nextId})
           /\ (rendered /\ isPosting' = isPosting)
                => (started = 0 /\ inflight' = inflight)]_vars

C9_Witness ==
    /\ ev.kind = "signal"
    /\ ev.id = 3
    /\ ~isPosting
    /\ inflight = {1, 2, 3}

(* C10: manual refresh guard.  A manual refresh starts a fetch only when no *)
(* fetch is in flight.                                                      *)
C10_RefreshGuard == ev.kind = "refresh" => ev.alone

C13_HistoryMapping ==
    isShowingHistory
        => /\ Len(displayItems) = Min(DisplayCap, Len(history))
           /\ displayItems = HistoryView

C13_Witness ==
    /\ isShowingHistory
    /\ Completed
    /\ Len(apiTweets) > 0
    /\ Len(history) > DisplayCap

(* C14: source flag consistency.  isShowingHistory holds exactly when the   *)
(* displayed items are the history view; all displayed items carry one      *)
(* source tag, and when the flag is off they are the stored remote items,   *)
(* of which there is at least one.                                          *)
C14_SourceFlag ==
    /\ isShowingHistory <=> (\A i \in 1..Len(displayItems) :
                                displayItems[i].source = "history")
    /\ isShowingHistory => displayItems = HistoryView
    /\ ~isShowingHistory
         => /\ Len(apiTweets) > 0
            /\ displayItems = RemoteView(apiTweets)
            /\ \A i \in 1..Len(displayItems) : displayItems[i].source = "api"

C14_Witness ==
    /\ ~isShowingHistory
    /\ Completed
    /\ Len(displayItems) = 2
    /\ Len(history) > 0

(* C15: read-only inputs.  No step of the component changes the group list  *)
(* or the history log: a trigger, a completion and a teardown leave both as *)
(* they were, and a render by the parent leaves them as the parent passed   *)
(* them.                                                                    *)
C15_ReadOnlyInputs ==
    [][/\ ev'.kind \in {"activate", "refresh", "complete", "unmount"}
            => (groups' = groups /\ history' = history)
       /\ ev'.kind \in {"signal", "render"}
            => (groups' = groups /\ history' \in NextLogs)]_vars

C15_Witness ==
    /\ Completed
    /\ isShowingHistory
    /\ Len(history) > DisplayCap
    /\ Len(groups) > 0

(* C16: awaiting-work branch.  The progress panel is the waiting            *)
(* placeholder exactly when the group list is empty; otherwise it is the    *)
(* bar with the counts successCount and total.                              *)
C16_AwaitingWork ==
    LET total == Len(groups)
        count == Cardinality({i \in 1..total : groups[i].status = "success"})
    IN  /\ progressView.kind = "awaiting" <=> total = 0
        /\ total = 0 => progressView.kind # "bar"
        /\ total > 0 => /\ progressView.kind = "bar"
                        /\ progressView.done = count
                        /\ progressView.total = total

C16_Witness ==
    /\ Len(groups) = 0
    /\ progressView.kind = "awaiting"
    /\ progress = 0

(* C17: loading covers the newest fetch.  While the most recently started   *)
(* fetch is in flight, the loading flag is set.                             *)
C17_LoadingCoversNewest ==
    (mounted = "yes" /\ (nextId - 1) \in inflight) => loadingTimeline

C19_NoOverlapWithoutSignal ==
    (~signalled /\ mounted # "gone")
        => /\ Cardinality(inflight) <= 1
           /\ loadingTimeline <=> inflight # {}

C19_Witness ==
    /\ ~signalled
    /\ ev.kind = "refresh"
    /\ ev.id = 3
    /\ inflight = {3}
    /\ loadingTimeline
====
